---- MODULE Spec2Model ----
(***************************************************************************)
(* Model of api/fs.go (AllocFS.Stream's decode goroutine and its caller)   *)
(* and of taskrunner's handleResult (newHandleResult, Wait).               *)
(*                                                                         *)
(* The two components share no state.  SpecWait runs handleResult with its *)
(* producer and its Wait callers; SpecStream runs one opened Stream with   *)
(* its server and its caller.  FairSpecWait adds the scheduling fairness   *)
(* of the goroutines of handleResult.                                      *)
(***************************************************************************)
EXTENDS Naturals, Sequences, FiniteSets

\* -------------------------------------------------------------------------
\* Bounds of the model
\* -------------------------------------------------------------------------

\* Number of goroutines that call handleResult.Wait.
NWaiters == 2

\* Number of frames the server writes to one stream's response body.
MaxFrames == 3

\* Number of frames the server writes when it writes data frames only
\* (more than the channel's capacity plus the frame held at the send).
MaxDataFrames == 12

Waiters == 1..NWaiters

\* The non-nil *structs.WaitResult values the producer may send: two of
\* them, told apart by their exit code.
WaitResults == {[ExitCode |-> c] : c \in {0, 2}}

\* Go's nil: the zero value of a pointer, also what a receive from a
\* closed, drained channel yields.
Nil == [IsNil |-> TRUE]

VARIABLES
    \* ---- handleResult (taskrunner) ----
    waitCh,        \* values sent on waitCh and not yet received
    waitChClosed,  \* the producer closed waitCh
    yielded,       \* value the producer sent on waitCh, Nil while none (history)
    lpc,           \* listener goroutine: "recv", "set", "notify", "exited"
    res,           \* the listener's local res
    result,        \* h.result
    doneCh,        \* TRUE once doneCh is closed
    nRecv,         \* receives the listener made from waitCh (history)
    nSet,          \* writes of h.result (history)
    nClose,        \* close(doneCh) calls (history)
    wpc,           \* per Wait caller: "idle", "select", "read", "retDone", "retCtx"
    ctx,           \* per Wait caller: its ctx: "live", "early" (cancelled while
                   \* doneCh was open), "late" (cancelled when doneCh was closed)
    ret,           \* per Wait caller: value its last Wait returned
    entry,         \* per Wait caller: when its current Wait was entered: "pre"
                   \* (before the producer sent), "mid", "post" (doneCh closed)
    \* ---- AllocFS.Stream (api), after c.Do(req) succeeded ----
    sent,          \* frames the server has written to the response body, in order
    srvClosed,     \* the server closed the connection
    nDecoded,      \* frames of sent that dec.Decode has returned
    spc,           \* decode goroutine: "check", "decode", "send", "exited"
    frame,         \* the loop's local frame, Nil outside an iteration
    exit,          \* how the goroutine ended: "none", "cancel", "eof", "abort", "fail"
    cancel,        \* TRUE once the caller closed the cancel channel
    frames,        \* the buffered frames channel
    nFramesClose,  \* close(frames) calls (history)
    nBodyClose,    \* resp.Body.Close() calls (history)
    received,      \* frames the caller received from the channel, in order
    sawClose,      \* the caller's receive observed the channel closed
    spcAtCancel,       \* spc when cancel was closed, "none" before (history)
    decodedAtCancel,   \* nDecoded when cancel was closed (history)
    queuedAtCancel,    \* frames sent on the channel when cancel was closed (history)
    receivedAtCancel,  \* Len(received) when cancel was closed (history)
    \* ---- AllocFS.List, Stat, ReadAt, Cat, Stream up to their return ----
    rop,           \* the operation called, "none" before the first call
    rpc,           \* the call: "idle", "info", "addr", "do", "status", "decode",
                   \* "returned"
    ralloc,        \* alloc.ID of the call
    node,          \* the node Nodes().Info returned, Nil while none
    requests,      \* the requests c.Do sent to the node agent, in order (history)
    resp,          \* the response c.Do returned, Nil while none
    rerr,          \* the error the call returned, Nil for none
    rdata,         \* the result, reader or channel the call returned, Nil for none
    goStarted      \* Stream started its decode goroutine

srcVars == <<waitCh, waitChClosed, yielded>>
listenerVars == <<lpc, res, result, doneCh, nRecv, nSet, nClose>>
waiterVars == <<wpc, ctx, ret, entry>>
waitVars == <<srcVars, listenerVars, waiterVars>>

streamVars == <<sent, srvClosed, nDecoded, spc, frame, exit, cancel, frames,
                nFramesClose, nBodyClose, received, sawClose,
                spcAtCancel, decodedAtCancel, queuedAtCancel, receivedAtCancel>>

reqVars == <<rop, rpc, ralloc, node, requests, resp, rerr, rdata, goStarted>>

vars == <<waitVars, streamVars, reqVars>>

\* -------------------------------------------------------------------------
\* handleResult: state after newHandleResult returned
\* -------------------------------------------------------------------------

InitWait ==
    /\ waitCh = <<>>
    /\ waitChClosed = FALSE
    /\ yielded = Nil
    /\ lpc = "recv"
    /\ res = Nil
    /\ result = Nil
    /\ doneCh = FALSE
    /\ nRecv = 0
    /\ nSet = 0
    /\ nClose = 0
    /\ wpc = [w \in Waiters |-> "idle"]
    /\ ctx = [w \in Waiters |-> "live"]
    /\ ret = [w \in Waiters |-> Nil]
    /\ entry = [w \in Waiters |-> "pre"]

\* The producer (DriverHandle) sends its single WaitResult on waitCh.
ProducerSend(v) ==
    /\ yielded = Nil
    /\ ~waitChClosed
    /\ waitCh' = Append(waitCh, v)
    /\ yielded' = v
    /\ UNCHANGED <<waitChClosed, listenerVars, waiterVars, streamVars, reqVars>>

\* The producer closes waitCh: after its send, or without ever sending.
ProducerClose ==
    /\ ~waitChClosed
    /\ waitChClosed' = TRUE
    /\ UNCHANGED <<waitCh, yielded, listenerVars, waiterVars, streamVars, reqVars>>

\* Mutant of ListenerRecv: a receive that does not block (a select with a
\* default case) and takes nil while the channel is empty and open.
ListenerRecvNonBlocking ==
    /\ lpc = "recv"
    /\ \/ /\ waitCh # <<>>
          /\ res' = Head(waitCh)
          /\ waitCh' = Tail(waitCh)
       \/ /\ waitCh = <<>>
          /\ res' = Nil
          /\ waitCh' = waitCh
    /\ nRecv' = nRecv + 1
    /\ lpc' = "set"
    /\ UNCHANGED <<waitChClosed, yielded, result, doneCh, nSet, nClose,
                   waiterVars, streamVars, reqVars>>

\* res := <-waitCh.  A receive takes the buffered value; on a closed and
\* drained channel it yields nil at once; otherwise it blocks.
ListenerRecv ==
    /\ lpc = "recv"
    /\ \/ /\ waitCh # <<>>
          /\ res' = Head(waitCh)
          /\ waitCh' = Tail(waitCh)
       \/ /\ waitCh = <<>>
          /\ waitChClosed
          /\ res' = Nil
          /\ waitCh' = waitCh
    /\ nRecv' = nRecv + 1
    /\ lpc' = "set"
    /\ UNCHANGED <<waitChClosed, yielded, result, doneCh, nSet, nClose,
                   waiterVars, streamVars, reqVars>>

\* Mutant of ListenerSetResult: the listener forgets to store res.
ListenerSetResultDropped ==
    /\ lpc = "set"
    /\ lpc' = "notify"
    /\ UNCHANGED <<srcVars, res, result, doneCh, nRecv, nSet, nClose,
                   waiterVars, streamVars, reqVars>>

\* Mutant of ListenerSetResult: close(doneCh) is placed before the write of
\* h.result, which then happens with the signal already raised.
ListenerSetResultAfterNotify ==
    /\ lpc = "set"
    /\ doneCh' = TRUE
    /\ nClose' = nClose + 1
    /\ lpc' = "lateset"
    /\ UNCHANGED <<srcVars, res, result, nRecv, nSet, waiterVars, streamVars, reqVars>>

\* h.result = res
ListenerSetResult ==
    /\ lpc = "set"
    /\ result' = res
    /\ nSet' = nSet + 1
    /\ lpc' = "notify"
    /\ UNCHANGED <<srcVars, res, doneCh, nRecv, nClose, waiterVars, streamVars, reqVars>>

\* Mutant of ListenerNotify: the listener loops back to receive again.
ListenerNotifyLoop ==
    /\ lpc = "notify"
    /\ doneCh' = TRUE
    /\ nClose' = nClose + 1
    /\ lpc' = "recv"
    /\ UNCHANGED <<srcVars, res, result, nRecv, nSet, waiterVars, streamVars, reqVars>>

\* close(doneCh), then the goroutine ends.
ListenerNotify ==
    /\ lpc = "notify"
    /\ doneCh' = TRUE
    /\ nClose' = nClose + 1
    /\ lpc' = "exited"
    /\ UNCHANGED <<srcVars, res, result, nRecv, nSet, waiterVars, streamVars, reqVars>>

Listener == ListenerRecv \/ ListenerSetResult \/ ListenerNotify

\* A goroutine calls h.Wait(ctx); alreadyCancelled says whether ctx.Done() is
\* closed on entry.  A caller that returned may call again with a new ctx.
WaitCall(w, alreadyCancelled) ==
    /\ wpc[w] \in {"idle", "retDone", "retCtx"}
    /\ wpc' = [wpc EXCEPT ![w] = "select"]
    /\ ctx' = [ctx EXCEPT ![w] = IF ~alreadyCancelled THEN "live"
                                 ELSE IF doneCh THEN "late" ELSE "early"]
    /\ ret' = [ret EXCEPT ![w] = Nil]
    /\ entry' = [entry EXCEPT ![w] = IF doneCh THEN "post"
                                     ELSE IF yielded = Nil THEN "pre" ELSE "mid"]
    /\ UNCHANGED <<srcVars, listenerVars, streamVars, reqVars>>

\* The ctx of a caller blocked in Wait is cancelled (or its deadline passes).
CtxCancel(w) ==
    /\ wpc[w] = "select"
    /\ ctx[w] = "live"
    /\ ctx' = [ctx EXCEPT ![w] = IF doneCh THEN "late" ELSE "early"]
    /\ UNCHANGED <<srcVars, listenerVars, wpc, ret, entry, streamVars, reqVars>>

\* Mutant of WaitSelectDone: Wait does not wait for doneCh.
WaitSelectDoneEarly(w) ==
    /\ wpc[w] = "select"
    /\ wpc' = [wpc EXCEPT ![w] = "read"]
    /\ UNCHANGED <<srcVars, listenerVars, ctx, ret, entry, streamVars, reqVars>>

\* select: case <-h.doneCh.  Enabled once doneCh is closed; when ctx.Done()
\* is closed too, Go's select chooses either ready case.
WaitSelectDone(w) ==
    /\ wpc[w] = "select"
    /\ doneCh
    /\ wpc' = [wpc EXCEPT ![w] = "read"]
    /\ UNCHANGED <<srcVars, listenerVars, ctx, ret, entry, streamVars, reqVars>>

\* Mutant of WaitSelectCtx: Wait ignores its ctx.
WaitSelectCtxIgnored(w) ==
    /\ FALSE
    /\ UNCHANGED vars

\* Mutant of WaitSelectCtx: a cancelled Wait takes the pending value off
\* waitCh on its way out.
WaitSelectCtxConsumes(w) ==
    /\ wpc[w] = "select"
    /\ ctx[w] # "live"
    /\ wpc' = [wpc EXCEPT ![w] = "retCtx"]
    /\ ret' = [ret EXCEPT ![w] = Nil]
    /\ waitCh' = <<>>
    /\ UNCHANGED <<waitChClosed, yielded, listenerVars, ctx, entry, streamVars, reqVars>>

\* select: case <-ctx.Done(): return nil
WaitSelectCtx(w) ==
    /\ wpc[w] = "select"
    /\ ctx[w] # "live"
    /\ wpc' = [wpc EXCEPT ![w] = "retCtx"]
    /\ ret' = [ret EXCEPT ![w] = Nil]
    /\ UNCHANGED <<srcVars, listenerVars, ctx, entry, streamVars, reqVars>>

\* Mutant of WaitReturnResult: Wait returns nil on every path.
WaitReturnNil(w) ==
    /\ wpc[w] = "read"
    /\ wpc' = [wpc EXCEPT ![w] = "retDone"]
    /\ ret' = [ret EXCEPT ![w] = Nil]
    /\ UNCHANGED <<srcVars, listenerVars, ctx, entry, streamVars, reqVars>>

\* return h.result
WaitReturnResult(w) ==
    /\ wpc[w] = "read"
    /\ wpc' = [wpc EXCEPT ![w] = "retDone"]
    /\ ret' = [ret EXCEPT ![w] = result]
    /\ UNCHANGED <<srcVars, listenerVars, ctx, entry, streamVars, reqVars>>

\* The steps of one Wait call after its entry.
Wait(w) == WaitSelectDone(w) \/ WaitSelectCtx(w) \/ WaitReturnResult(w)

\* -------------------------------------------------------------------------
\* AllocFS.Stream: state after c.Do(req) returned a response, at go func()
\* -------------------------------------------------------------------------

\* Capacity of the frames channel: make(chan *StreamFrame, 10).
FramesCap == 10

\* Values of StreamFrame.Data and StreamFrame.FileEvent the server uses.
Payloads == {"", "aGk="}
Events == {"", "truncate"}

\* A StreamFrame as the server encodes it; the n-th frame of a stream
\* carries offset n.
StreamFrame(offset, data, event) ==
    [Offset |-> offset, Data |-> data, File |-> "stdout.log", FileEvent |-> event]

\* Mutant of IsHeartbeat: only Data is tested.
IsHeartbeatDataOnly(s) == s.Data = ""

\* func (s *StreamFrame) IsHeartbeat() bool
IsHeartbeat(s) == s.Data = "" /\ s.FileEvent = ""

\* Frames handed to the channel so far: received or still buffered.
Queued == Len(received) + Len(frames)

InitStream ==
    /\ sent = <<>>
    /\ srvClosed = FALSE
    /\ nDecoded = 0
    /\ spc = "check"
    /\ frame = Nil
    /\ exit = "none"
    /\ cancel = FALSE
    /\ frames = <<>>
    /\ nFramesClose = 0
    /\ nBodyClose = 0
    /\ received = <<>>
    /\ sawClose = FALSE
    /\ spcAtCancel = "none"
    /\ decodedAtCancel = 0
    /\ queuedAtCancel = 0
    /\ receivedAtCancel = 0

callerVars == <<received, sawClose>>
cancelVars == <<cancel, spcAtCancel, decodedAtCancel, queuedAtCancel, receivedAtCancel>>

\* The node agent writes one more frame to the response body.
ServerSend(data, event) ==
    /\ ~srvClosed
    /\ nBodyClose = 0
    /\ Len(sent) < MaxFrames
    /\ sent' = Append(sent, StreamFrame(Len(sent) + 1, data, event))
    /\ UNCHANGED <<srvClosed, nDecoded, spc, frame, exit, frames, nFramesClose,
                   nBodyClose, callerVars, cancelVars, waitVars, reqVars>>

\* The node agent writes one more frame carrying data (a log that grows
\* with no heartbeat in between).
ServerSendData ==
    /\ ~srvClosed
    /\ nBodyClose = 0
    /\ Len(sent) < MaxDataFrames
    /\ sent' = Append(sent, StreamFrame(Len(sent) + 1, "aGk=", ""))
    /\ UNCHANGED <<srvClosed, nDecoded, spc, frame, exit, frames, nFramesClose,
                   nBodyClose, callerVars, cancelVars, waitVars, reqVars>>

\* The node agent ends the response body (the file was deleted, the agent stops).
ServerClose ==
    /\ ~srvClosed
    /\ nBodyClose = 0
    /\ srvClosed' = TRUE
    /\ UNCHANGED <<sent, nDecoded, spc, frame, exit, frames, nFramesClose,
                   nBodyClose, callerVars, cancelVars, waitVars, reqVars>>

\* Mutant of StreamCheck: the return on cancel skips resp.Body.Close() (the
\* close is not deferred).
StreamCheckLeaksBody ==
    /\ spc = "check"
    /\ IF cancel
         THEN /\ spc' = "exited"
              /\ exit' = "cancel"
              /\ UNCHANGED nBodyClose
         ELSE /\ spc' = "decode"
              /\ UNCHANGED <<exit, nBodyClose>>
    /\ UNCHANGED <<sent, srvClosed, nDecoded, frame, frames, nFramesClose,
                   callerVars, cancelVars, waitVars, reqVars>>

\* Mutant of StreamCheck: the loop does not look at cancel.
StreamCheckBlind ==
    /\ spc = "check"
    /\ spc' = "decode"
    /\ UNCHANGED <<sent, srvClosed, nDecoded, frame, exit, frames, nFramesClose,
                   nBodyClose, callerVars, cancelVars, waitVars, reqVars>>

\* select { case <-cancel: return; default: } with the deferred resp.Body.Close().
StreamCheck ==
    /\ spc = "check"
    /\ IF cancel
         THEN /\ spc' = "exited"
              /\ exit' = "cancel"
              /\ nBodyClose' = nBodyClose + 1
         ELSE /\ spc' = "decode"
              /\ UNCHANGED <<exit, nBodyClose>>
    /\ UNCHANGED <<sent, srvClosed, nDecoded, frame, frames, nFramesClose,
                   callerVars, cancelVars, waitVars, reqVars>>

\* dec.Decode(&frame) returns the next frame; a heartbeat is discarded
\* (continue), any other frame goes on to the send.
StreamDecode ==
    /\ spc = "decode"
    /\ nDecoded < Len(sent)
    /\ nDecoded' = nDecoded + 1
    /\ IF IsHeartbeat(sent[nDecoded + 1])
         THEN /\ frame' = Nil
              /\ spc' = "check"
         ELSE /\ frame' = sent[nDecoded + 1]
              /\ spc' = "send"
    /\ UNCHANGED <<sent, srvClosed, exit, frames, nFramesClose, nBodyClose,
                   callerVars, cancelVars, waitVars, reqVars>>

\* Mutant of StreamDecodeError: the frames still buffered are thrown away
\* when the channel is closed.
StreamDecodeErrorDiscards(why) ==
    /\ spc = "decode"
    /\ nFramesClose' = nFramesClose + 1
    /\ nBodyClose' = nBodyClose + 1
    /\ frames' = <<>>
    /\ frame' = Nil
    /\ spc' = "exited"
    /\ exit' = why
    /\ UNCHANGED <<sent, srvClosed, nDecoded, callerVars, cancelVars, waitVars, reqVars>>

\* Mutant of StreamDecodeError: the return after close(frames) is missing
\* and the loop goes on.
StreamDecodeErrorNoReturn(why) ==
    /\ spc = "decode"
    /\ nFramesClose' = nFramesClose + 1
    /\ frame' = Nil
    /\ spc' = "check"
    /\ UNCHANGED <<sent, srvClosed, nDecoded, exit, frames, nBodyClose,
                   callerVars, cancelVars, waitVars, reqVars>>

\* Mutant of StreamDecodeError: the branch returns without close(frames).
StreamDecodeErrorNoClose(why) ==
    /\ spc = "decode"
    /\ nBodyClose' = nBodyClose + 1
    /\ frame' = Nil
    /\ spc' = "exited"
    /\ exit' = why
    /\ UNCHANGED <<sent, srvClosed, nDecoded, frames, nFramesClose,
                   callerVars, cancelVars, waitVars, reqVars>>

\* if err := dec.Decode(&frame); err != nil { close(frames); return }
StreamDecodeError(why) ==
    /\ spc = "decode"
    /\ nFramesClose' = nFramesClose + 1
    /\ nBodyClose' = nBodyClose + 1
    /\ frame' = Nil
    /\ spc' = "exited"
    /\ exit' = why
    /\ UNCHANGED <<sent, srvClosed, nDecoded, frames, callerVars, cancelVars, waitVars, reqVars>>

\* Decode reaches the end of a body the server closed: io.EOF.
StreamDecodeEOF ==
    /\ srvClosed
    /\ nDecoded = Len(sent)
    /\ StreamDecodeError("eof")

\* The transport aborts the body's read once req.Cancel is closed.
StreamDecodeAbort ==
    /\ cancel
    /\ StreamDecodeError("abort")

\* The connection drops, or the next bytes are no valid frame.
StreamDecodeFail ==
    /\ StreamDecodeError("fail")

\* Mutant of StreamSend: the channel takes frames without limit.
StreamSendUnbounded ==
    /\ spc = "send"
    /\ nFramesClose = 0
    /\ frames' = Append(frames, frame)
    /\ frame' = Nil
    /\ spc' = "check"
    /\ UNCHANGED <<sent, srvClosed, nDecoded, exit, nFramesClose, nBodyClose,
                   callerVars, cancelVars, waitVars, reqVars>>

\* frames <- &frame: blocks while the buffer is full.
StreamSend ==
    /\ spc = "send"
    /\ Len(frames) < FramesCap
    /\ nFramesClose = 0
    /\ frames' = Append(frames, frame)
    /\ frame' = Nil
    /\ spc' = "check"
    /\ UNCHANGED <<sent, srvClosed, nDecoded, exit, nFramesClose, nBodyClose,
                   callerVars, cancelVars, waitVars, reqVars>>

\* The caller receives the next frame from the returned channel.
CallerRecv ==
    /\ frames # <<>>
    /\ received' = Append(received, Head(frames))
    /\ frames' = Tail(frames)
    /\ UNCHANGED <<sent, srvClosed, nDecoded, spc, frame, exit, nFramesClose,
                   nBodyClose, sawClose, cancelVars, waitVars, reqVars>>

\* The caller's receive finds the channel closed and drained.
CallerSeeClose ==
    /\ frames = <<>>
    /\ nFramesClose > 0
    /\ ~sawClose
    /\ sawClose' = TRUE
    /\ UNCHANGED <<sent, srvClosed, nDecoded, spc, frame, exit, frames, nFramesClose,
                   nBodyClose, received, cancelVars, waitVars, reqVars>>

\* The caller closes the cancel channel.
CallerCancel ==
    /\ ~cancel
    /\ cancel' = TRUE
    /\ spcAtCancel' = spc
    /\ decodedAtCancel' = nDecoded
    /\ queuedAtCancel' = Queued
    /\ receivedAtCancel' = Len(received)
    /\ UNCHANGED <<sent, srvClosed, nDecoded, spc, frame, exit, frames, nFramesClose,
                   nBodyClose, callerVars, waitVars, reqVars>>

\* -------------------------------------------------------------------------
\* AllocFS.List, Stat, ReadAt, Cat and Stream up to their return
\* -------------------------------------------------------------------------

Ops == {"List", "Stat", "ReadAt", "Cat", "Stream"}

\* Allocation IDs of the calls.
AllocIDs == {"alloc-1", "alloc-2"}

\* node.HTTPAddr as Nodes().Info may return it: not advertised, or advertised.
HTTPAddrs == {"", "10.0.0.7:4646"}

\* Response bodies of the node agent: file data or a listing, and two error texts.
Bodies == {"payload", "no such file", "disk 100% full"}

\* What c.Do may return as a response: its status code, its body, whether
\* the body can be read to its end, and whether it decodes into the shape
\* List or Stat expects.
Responses ==
    [StatusCode : {200, 404}, Body : Bodies, Readable : BOOLEAN, Decodable : BOOLEAN]

\* The last path segment before the allocation ID of each operation's URL.
Endpoint(op) ==
    CASE op = "List" -> "/v1/client/fs/ls/"
      [] op = "Stat" -> "/v1/client/fs/stat/"
      [] op = "ReadAt" -> "/v1/client/fs/readat/"
      [] op = "Cat" -> "/v1/client/fs/cat/"
      [] op = "Stream" -> "/v1/client/fs/stream/"

\* fmt.Errorf(format) without operands: the text is format, except that a
\* verb in it is rendered as a missing operand ("% f" is the verb f with the
\* space flag).
Errorf(format) ==
    IF format = "disk 100% full" THEN "disk 100%!f(MISSING)ull" ELSE format

\* func (a *AllocFS) getErrorMsg(resp *http.Response) error
getErrorMsg(r) ==
    IF r.Readable
      THEN [Kind |-> "remote", Text |-> Errorf(r.Body)]
      ELSE [Kind |-> "read", Text |-> "unexpected EOF"]

\* fmt.Errorf("http addr of the node where alloc %q is running is not advertised", alloc.ID)
NotAdvertised(id) == [Kind |-> "unadvertised", Alloc |-> id]

\* The operations that test resp.StatusCode after c.Do.
ChecksStatus(op) == op \in {"List", "Stat"}

InitRequest ==
    /\ rop = "none"
    /\ rpc = "idle"
    /\ ralloc = "none"
    /\ node = Nil
    /\ requests = <<>>
    /\ resp = Nil
    /\ rerr = Nil
    /\ rdata = Nil
    /\ goStarted = FALSE

\* A caller invokes one of the five operations on an allocation; each call
\* starts from nothing (no connection or result is kept between calls).
ReqCall(op, id) ==
    /\ rpc \in {"idle", "returned"}
    /\ rop' = op
    /\ ralloc' = id
    /\ rpc' = "info"
    /\ node' = Nil
    /\ requests' = <<>>
    /\ resp' = Nil
    /\ rerr' = Nil
    /\ rdata' = Nil
    /\ goStarted' = FALSE
    /\ UNCHANGED <<waitVars, streamVars>>

\* node, _, err := a.client.Nodes().Info(alloc.NodeID, ...); if err != nil
\* the call returns it.
ReqInfo(ok, addr) ==
    /\ rpc = "info"
    /\ IF ok
         THEN /\ node' = [HTTPAddr |-> addr]
              /\ rpc' = "addr"
              /\ UNCHANGED rerr
         ELSE /\ rerr' = [Kind |-> "info", Text |-> "node lookup failed"]
              /\ rpc' = "returned"
              /\ UNCHANGED node
    /\ UNCHANGED <<rop, ralloc, requests, resp, rdata, goStarted, waitVars, streamVars>>

\* Mutant of ReqAddr: Stream lacks the test of node.HTTPAddr.
ReqAddrStreamUnchecked ==
    /\ rpc = "addr"
    /\ IF node.HTTPAddr = "" /\ rop # "Stream"
         THEN /\ rerr' = NotAdvertised(ralloc)
              /\ rpc' = "returned"
         ELSE /\ rpc' = "do"
              /\ UNCHANGED rerr
    /\ UNCHANGED <<rop, ralloc, node, requests, resp, rdata, goStarted,
                   waitVars, streamVars>>

\* if node.HTTPAddr == "" { return nil, nil, fmt.Errorf(...) }
ReqAddr ==
    /\ rpc = "addr"
    /\ IF node.HTTPAddr = ""
         THEN /\ rerr' = NotAdvertised(ralloc)
              /\ rpc' = "returned"
         ELSE /\ rpc' = "do"
              /\ UNCHANGED rerr
    /\ UNCHANGED <<rop, ralloc, node, requests, resp, rdata, goStarted,
                   waitVars, streamVars>>

\* The request the operation builds: GET on the node's address, the
\* operation's endpoint followed by alloc.ID.
Request == [Method |-> "GET", Host |-> node.HTTPAddr,
            Path |-> <<Endpoint(rop), ralloc>>]

\* Mutant of ReqDoError: the request is sent again after a network failure.
ReqDoErrorRetries ==
    /\ rpc = "do"
    /\ requests' = Append(requests, Request)
    /\ UNCHANGED <<rop, rpc, ralloc, node, resp, rerr, rdata, goStarted,
                   waitVars, streamVars>>

\* resp, err := c.Do(req) fails: if err != nil { return nil, nil, err }
ReqDoError ==
    /\ rpc = "do"
    /\ requests' = Append(requests, Request)
    /\ rerr' = [Kind |-> "network", Text |-> "connection refused"]
    /\ rpc' = "returned"
    /\ UNCHANGED <<rop, ralloc, node, resp, rdata, goStarted, waitVars, streamVars>>

\* resp, err := c.Do(req) returns the node agent's response r.
ReqDo(r) ==
    /\ rpc = "do"
    /\ requests' = Append(requests, Request)
    /\ resp' = r
    /\ rpc' = "status"
    /\ UNCHANGED <<rop, ralloc, node, rerr, rdata, goStarted, waitVars, streamVars>>

\* What follows c.Do.  List and Stat: if resp.StatusCode != 200 they return
\* a.getErrorMsg(resp), else they go on to decode.  ReadAt and Cat return
\* resp.Body.  Stream makes the channel, starts the goroutine and returns
\* the channel.
ReqAfterDo ==
    /\ rpc = "status"
    /\ IF ChecksStatus(rop)
         THEN IF resp.StatusCode # 200
                THEN /\ rerr' = getErrorMsg(resp)
                     /\ rpc' = "returned"
                     /\ UNCHANGED <<rdata, goStarted>>
                ELSE /\ rpc' = "decode"
                     /\ UNCHANGED <<rerr, rdata, goStarted>>
         ELSE /\ rpc' = "returned"
              /\ rdata' = IF rop = "Stream" THEN [Chan |-> "frames"]
                                            ELSE [Reader |-> resp.Body]
              /\ goStarted' = (rop = "Stream")
              /\ UNCHANGED rerr
    /\ UNCHANGED <<rop, ralloc, node, requests, resp, waitVars, streamVars>>

\* decoder.Decode(&files) or decoder.Decode(&file): the decoded value, or
\* the decoder's error.
ReqDecode ==
    /\ rpc = "decode"
    /\ IF resp.Readable /\ resp.Decodable
         THEN /\ rdata' = [Decoded |-> resp.Body]
              /\ UNCHANGED rerr
         ELSE /\ rerr' = [Kind |-> "decode", Text |-> "invalid character"]
              /\ UNCHANGED rdata
    /\ rpc' = "returned"
    /\ UNCHANGED <<rop, ralloc, node, requests, resp, goStarted, waitVars, streamVars>>

\* -------------------------------------------------------------------------
\* Specifications
\* -------------------------------------------------------------------------

Init == InitWait /\ InitStream /\ InitRequest

NextWait ==
    \/ \E v \in WaitResults : ProducerSend(v)
    \/ ProducerClose
    \/ ListenerRecv
    \/ ListenerSetResult
    \/ ListenerNotify
    \/ \E w \in Waiters : \E c \in BOOLEAN : WaitCall(w, c)
    \/ \E w \in Waiters : CtxCancel(w)
    \/ \E w \in Waiters : WaitSelectDone(w)
    \/ \E w \in Waiters : WaitSelectCtx(w)
    \/ \E w \in Waiters : WaitReturnResult(w)

NextStream ==
    \/ \E d \in Payloads : \E e \in Events : ServerSend(d, e)
    \/ ServerClose
    \/ StreamCheck
    \/ StreamDecode
    \/ StreamDecodeEOF
    \/ StreamDecodeAbort
    \/ StreamDecodeFail
    \/ StreamSend
    \/ CallerRecv
    \/ CallerSeeClose
    \/ CallerCancel

\* The steps of the decode goroutine that its own scheduling makes it take:
\* every step but a failure of the connection.
StreamLoop ==
    \/ StreamCheck
    \/ StreamDecode
    \/ StreamDecodeEOF
    \/ StreamDecodeAbort
    \/ StreamSend

NextStreamData ==
    \/ ServerSendData
    \/ ServerClose
    \/ StreamCheck
    \/ StreamDecode
    \/ StreamDecodeEOF
    \/ StreamDecodeAbort
    \/ StreamDecodeFail
    \/ StreamSend
    \/ CallerRecv
    \/ CallerSeeClose
    \/ CallerCancel

\* handleResult with its producer and its Wait callers.
SpecWait == Init /\ [][NextWait]_vars

\* The goroutines of handleResult are scheduled: the listener and every
\* Wait call take their next step when one stays possible.  The producer
\* and the callers' contexts are under no obligation.
FairSpecWait ==
    /\ SpecWait
    /\ WF_vars(Listener)
    /\ \A w \in Waiters : WF_vars(Wait(w))

\* One opened Stream with its server and its caller.
SpecStream == Init /\ [][NextStream]_vars

\* One opened Stream whose server writes up to MaxDataFrames data frames.
SpecStreamData == Init /\ [][NextStreamData]_vars

\* The decode goroutine is scheduled; neither the server nor the caller is
\* under any obligation.
FairSpecStreamData ==
    /\ SpecStreamData
    /\ WF_vars(StreamLoop)

\* The decode goroutine is scheduled and the caller keeps receiving.
FairSpecStreamDrained ==
    /\ SpecStreamData
    /\ WF_vars(StreamLoop)
    /\ WF_vars(CallerRecv)

NextRequest ==
    \/ \E op \in Ops : \E id \in AllocIDs : ReqCall(op, id)
    \/ \E ok \in BOOLEAN : \E addr \in HTTPAddrs : ReqInfo(ok, addr)
    \/ ReqAddr
    \/ ReqDoError
    \/ \E r \in Responses : ReqDo(r)
    \/ ReqAfterDo
    \/ ReqDecode

\* Calls of List, Stat, ReadAt, Cat and Stream, one after the other.
SpecRequest == Init /\ [][NextRequest]_vars

\* -------------------------------------------------------------------------
\* Claims about handleResult
\* -------------------------------------------------------------------------

\* The Wait call of w has returned.
Returned(w) == wpc[w] \in {"retDone", "retCtx"}

\* C1: Wait callers that entered before the producer sent, and whose ctx is
\* never cancelled, all return the value V the source yielded: none of them
\* returns another value or nil, and (the listener and the callers being
\* scheduled) none stays blocked once V was sent.
C1_ConcurrentWaitersGetValue ==
    /\ [](\A w \in Waiters :
            (Returned(w) /\ entry[w] = "pre" /\ ctx[w] = "live" /\ yielded # Nil)
                => (wpc[w] = "retDone" /\ ret[w] = yielded))
    /\ \A w \in Waiters :
            (wpc[w] = "select" /\ entry[w] = "pre" /\ yielded # Nil) ~> Returned(w)

\* Every caller entered Wait before the send, none was cancelled, all
\* returned the value sent.
C1_Witness ==
    /\ yielded # Nil
    /\ \A w \in Waiters :
            wpc[w] = "retDone" /\ entry[w] = "pre" /\ ctx[w] = "live" /\ ret[w] = yielded

\* C2 as stated: every Wait entered after doneCh was closed returns the
\* stored value, whatever the state of its ctx.
C2_WaitAfterDeliveryAlwaysValue ==
    \A w \in Waiters :
        (Returned(w) /\ entry[w] = "post") => ret[w] = result

\* C2 amended: a Wait entered after doneCh was closed returns the stored
\* value when its ctx is not cancelled, and the stored value or nil when its
\* ctx is cancelled (select chooses between two ready cases).
C2_WaitAfterDelivery ==
    \A w \in Waiters :
        (Returned(w) /\ entry[w] = "post") =>
            /\ ctx[w] = "live" => (wpc[w] = "retDone" /\ ret[w] = result)
            /\ wpc[w] = "retDone" => ret[w] = result
            /\ wpc[w] = "retCtx" => (ret[w] = Nil /\ ctx[w] = "late")
            /\ yielded # Nil => result = yielded

\* After delivery of a value one caller with a live ctx got it, another
\* caller whose ctx was already cancelled got nil.
C2_Witness ==
    /\ yielded # Nil
    /\ \E w, x \in Waiters :
        /\ wpc[w] = "retDone" /\ entry[w] = "post" /\ ctx[w] = "live" /\ ret[w] = yielded
        /\ wpc[x] = "retCtx" /\ entry[x] = "post" /\ ctx[x] = "late" /\ ret[x] = Nil

\* C3 as stated (its result): a Wait whose ctx was cancelled before doneCh
\* was closed returns nil.
C3_CancelledBeforeDeliveryGetsNil ==
    \A w \in Waiters :
        (Returned(w) /\ ctx[w] = "early") => ret[w] = Nil

\* C3 amended: a Wait whose ctx was cancelled before doneCh was closed
\* returns, also when the producer never delivers; it returns nil when doneCh
\* is still open as it returns, and nil or the stored value when doneCh was
\* closed before its select chose.
C3_CancelledWaitReturns ==
    /\ \A w \in Waiters :
            (wpc[w] = "select" /\ ctx[w] = "early") ~> Returned(w)
    /\ [](\A w \in Waiters :
            (Returned(w) /\ ctx[w] = "early") =>
                /\ ~doneCh => (wpc[w] = "retCtx" /\ ret[w] = Nil)
                /\ wpc[w] = "retCtx" => ret[w] = Nil
                /\ wpc[w] = "retDone" => (doneCh /\ ret[w] = result))

\* A cancelled caller returned nil while nothing was ever sent or delivered.
C3_Witness ==
    /\ yielded = Nil
    /\ ~waitChClosed
    /\ ~doneCh
    /\ \E w \in Waiters : wpc[w] = "retCtx" /\ ctx[w] = "early" /\ ret[w] = Nil

\* C4: the step by which a Wait returns on its ctx changes neither h.result,
\* doneCh, waitCh nor the listener; and whoever returns through doneCh after
\* a value was sent gets that value.
C4_CancelledWaitLeavesDelivery ==
    /\ [][\A w \in Waiters :
            (wpc[w] = "select" /\ wpc'[w] = "retCtx") =>
                UNCHANGED <<result, doneCh, waitCh, waitChClosed, lpc, res>>]_vars
    /\ [](\A w \in Waiters :
            (wpc[w] = "retDone" /\ yielded # Nil) => ret[w] = yielded)

\* One caller gave up on its ctx before delivery; another one returned the
\* value that was sent.
C4_Witness ==
    /\ yielded # Nil
    /\ \E w, x \in Waiters :
        /\ wpc[w] = "retCtx" /\ ctx[w] = "early" /\ entry[w] = "pre"
        /\ wpc[x] = "retDone" /\ ret[x] = yielded

\* C5: whenever doneCh is closed, h.result already holds the value the
\* listener received, written once; the step that closes doneCh does not
\* write it, and no step changes it afterwards.
C5_ResultFixedBeforeSignal ==
    /\ [](doneCh => (nSet = 1 /\ result = res /\ (yielded # Nil => result = yielded)))
    /\ [][(~doneCh /\ doneCh') => (nSet = 1 /\ result = res /\ result' = result)]_vars
    /\ [][doneCh => result' = result]_vars

\* doneCh is closed over a stored value and a caller has read it.
C5_Witness ==
    /\ doneCh
    /\ result # Nil
    /\ \E w \in Waiters : wpc[w] = "retDone" /\ ret[w] = result

\* C6: the listener receives at most once, writes h.result at most once and
\* closes doneCh at most once; when the source yields a value each happens
\* exactly once.
C6_SingleDelivery ==
    /\ [](/\ nRecv <= 1
          /\ nSet <= 1
          /\ nClose <= 1
          /\ nSet <= nRecv
          /\ nClose <= nSet
          /\ doneCh <=> nClose = 1
          /\ lpc = "exited" => (nRecv = 1 /\ nSet = 1 /\ nClose = 1))
    /\ (yielded # Nil) ~> (nRecv = 1 /\ nSet = 1 /\ nClose = 1 /\ result = yielded)

\* The value was delivered, the source was closed after it, and callers
\* came and went: still one receive, one write, one close.
C6_Witness ==
    /\ yielded # Nil
    /\ waitChClosed
    /\ lpc = "exited"
    /\ nClose = 1
    /\ \A w \in Waiters : wpc[w] = "retDone" /\ entry[w] = "post"

\* No caller with a live ctx has returned.
NoLiveReturn == \A w \in Waiters : ~(Returned(w) /\ ctx[w] = "live")

\* C7 as stated: while the source has produced no value, its close without
\* a value included, doneCh is not closed and no caller with a live ctx has
\* returned.
C7_NoValueNoDelivery ==
    yielded = Nil => (~doneCh /\ NoLiveReturn)

\* C7 amended: while the source has neither produced a value nor been
\* closed, the listener stays in its receive, doneCh is not closed and no
\* caller with a live ctx has returned.
C7_AbandonedSourceBlocks ==
    (yielded = Nil /\ ~waitChClosed) =>
        (lpc = "recv" /\ ~doneCh /\ nSet = 0 /\ NoLiveReturn)

\* Nothing was sent or closed; one caller is blocked in Wait with a live
\* ctx while another left on its own cancellation.
C7_Witness ==
    /\ yielded = Nil
    /\ ~waitChClosed
    /\ \E w, x \in Waiters :
        /\ wpc[w] = "select" /\ ctx[w] = "live"
        /\ wpc[x] = "retCtx"

\* C8 as stated: Wait returns nil only on its cancellation branch, and a
\* return through doneCh is never nil.
C8_NilOnlyOnCancel ==
    \A w \in Waiters :
        /\ (Returned(w) /\ ret[w] = Nil) => (wpc[w] = "retCtx" /\ ctx[w] # "live")
        /\ wpc[w] = "retDone" => ret[w] # Nil

\* C8 amended: Wait returns nil on its cancellation branch, or through doneCh
\* when waitCh was closed without a value (the listener then stored nil); a
\* return through doneCh after the source yielded a value is that value,
\* which is not nil.
C8_NilOnCancelOrClosedSource ==
    \A w \in Waiters :
        /\ (Returned(w) /\ ret[w] = Nil) =>
              \/ wpc[w] = "retCtx" /\ ctx[w] # "live"
              \/ wpc[w] = "retDone" /\ yielded = Nil /\ waitChClosed
        /\ (wpc[w] = "retDone" /\ yielded # Nil) => (ret[w] = yielded /\ ret[w] # Nil)
        /\ wpc[w] = "retCtx" => (ret[w] = Nil /\ ctx[w] # "live")

\* A value was delivered: one caller returned it through doneCh, another
\* returned nil on its cancellation.
C8_Witness ==
    /\ yielded # Nil
    /\ \E w, x \in Waiters :
        /\ wpc[w] = "retDone" /\ ret[w] = yielded
        /\ wpc[x] = "retCtx" /\ ret[x] = Nil

\* -------------------------------------------------------------------------
\* Claims about AllocFS.Stream
\* -------------------------------------------------------------------------

\* Frames that left the decode loop towards the caller, in order: received,
\* buffered in the channel, or held by the loop at its send.
Delivered == received \o frames \o (IF spc = "send" THEN <<frame>> ELSE <<>>)

\* C9: at every moment the frames received by the caller, followed by those
\* buffered and by the one the loop is handing over, are exactly the frames
\* decoded so far that have a non-empty Data or a non-empty FileEvent, in
\* the server's order; no received frame is a heartbeat; and when the stream
\* ended at the server's end of body and the caller drained the channel, the
\* caller received exactly the non-heartbeat frames the server sent.
C9_StreamDeliversDataFramesInOrder ==
    LET NonHeartbeat(f) == f.Data # "" \/ f.FileEvent # ""
    IN  /\ Delivered = SelectSeq(SubSeq(sent, 1, nDecoded), NonHeartbeat)
        /\ \A i \in 1..Len(received) : NonHeartbeat(received[i])
        /\ \A i, j \in 1..Len(received) : i < j => received[i].Offset < received[j].Offset
        /\ (exit = "eof" /\ frames = <<>>) => received = SelectSeq(sent, NonHeartbeat)

\* The server sent a frame with only a FileEvent, then a heartbeat, then a
\* frame with only Data, and closed; the caller received the two frames and
\* saw the channel closed.
C9_Witness ==
    /\ exit = "eof"
    /\ sawClose
    /\ Len(sent) = 3
    /\ sent[1].Data = "" /\ sent[1].FileEvent # ""
    /\ sent[2].Data = "" /\ sent[2].FileEvent = ""
    /\ sent[3].Data # "" /\ sent[3].FileEvent = ""
    /\ received = <<sent[1], sent[3]>>

\* C10 as stated: once cancel is closed the loop decodes no frame and
\* enqueues no frame, and the caller receives no frame.
C10_NothingAfterCancel ==
    cancel =>
        /\ nDecoded = decodedAtCancel
        /\ Queued = queuedAtCancel
        /\ Len(received) = receivedAtCancel

\* C10 amended: once cancel is closed the loop completes at most the
\* iteration that had already passed its check: it decodes at most one more
\* frame and enqueues at most one more frame, none at all when cancel was
\* closed while the loop stood at its check or had ended, and no further
\* decode when it stood at its send; no iteration starts after the signal
\* (the loop is in its decode or its send only within the iteration that was
\* under way); the caller can still receive the frames that were buffered
\* plus that one.
C10_AtMostOneIterationAfterCancel ==
    cancel =>
        /\ nDecoded <= decodedAtCancel + 1
        /\ Queued <= queuedAtCancel + 1
        /\ Len(received) <= queuedAtCancel + 1
        /\ spcAtCancel \in {"check", "exited"} =>
              (nDecoded = decodedAtCancel /\ Queued = queuedAtCancel)
        /\ spcAtCancel = "send" => nDecoded = decodedAtCancel
        /\ spc = "decode" =>
              (spcAtCancel = "decode" /\ nDecoded = decodedAtCancel
                                      /\ Queued = queuedAtCancel)
        /\ spc = "send" =>
              /\ Queued = queuedAtCancel
              /\ \/ spcAtCancel = "send" /\ nDecoded = decodedAtCancel
                 \/ spcAtCancel = "decode" /\ nDecoded = decodedAtCancel + 1
        /\ exit = "cancel" => (spc = "exited" /\ frame = Nil)

\* Cancel was closed after the loop's check: the loop still decoded a frame
\* and enqueued it, then ended at its next check, and the caller received
\* that frame.
C10_Witness ==
    /\ cancel
    /\ spcAtCancel = "decode"
    /\ exit = "cancel"
    /\ nDecoded = decodedAtCancel + 1
    /\ Queued = queuedAtCancel + 1
    /\ Len(received) = Queued
    /\ Len(received) > receivedAtCancel

\* C11 as stated: on every way the decode goroutine ends, the frames channel
\* has been closed.
C11_EveryExitClosesFrames ==
    spc = "exited" => nFramesClose = 1

\* C12: resp.Body is closed at most once; it is closed in every state in
\* which the goroutine has ended, whatever the way it ended, and is open
\* while the goroutine runs.
C12_BodyClosedOncePerExit ==
    /\ nBodyClose <= 1
    /\ spc = "exited" => nBodyClose = 1
    /\ spc # "exited" => nBodyClose = 0
    /\ spc = "exited" <=> exit # "none"

\* The goroutine ended on cancel while frames were still buffered: the body
\* is closed once.
C12_Witness ==
    /\ spc = "exited"
    /\ exit = "cancel"
    /\ frames # <<>>
    /\ nBodyClose = 1

\* C14: when the channel is closed after a failed Decode, the frames
\* received and buffered are all the non-heartbeat frames decoded, in order;
\* once the caller has seen the channel closed it has received all of them.
C14_DecodedFramesPrecedeClose ==
    LET NonHeartbeat(f) == f.Data # "" \/ f.FileEvent # ""
        Decoded == SelectSeq(SubSeq(sent, 1, nDecoded), NonHeartbeat)
    IN  /\ nFramesClose > 0 =>
              (spc = "exited" /\ exit \in {"eof", "abort", "fail"}
                              /\ received \o frames = Decoded)
        /\ sawClose => (nFramesClose > 0 /\ frames = <<>> /\ received = Decoded)

\* Decode failed after two frames had been decoded and one more had been
\* sent; the caller received the two and then saw the channel closed.
C14_Witness ==
    /\ exit = "fail"
    /\ sawClose
    /\ Len(sent) = 3
    /\ nDecoded = 2
    /\ Len(received) = 2

\* C19: close(frames) is called at most once, and once it has been called
\* the goroutine has ended: it is not at its send, nor anywhere in the loop.
C19_FramesClosedOnceThenNoSend ==
    /\ nFramesClose <= 1
    /\ nFramesClose = 1 => (spc = "exited" /\ frame = Nil)
    /\ spc = "send" => nFramesClose = 0

\* The channel was closed at the server's end of body with a frame still
\* buffered, after cancel had been closed as well.
C19_Witness ==
    /\ nFramesClose = 1
    /\ exit = "eof"
    /\ cancel
    /\ frames # <<>>

\* C13 as stated: once cancel is closed the decode goroutine ends and
\* closes the body, whatever the server and the caller do.
C13_CancelledLoopEnds ==
    cancel ~> (spc = "exited" /\ nBodyClose = 1)

\* Frames decoded and neither received nor buffered: the one at the send.
Pending == IF spc = "send" THEN 1 ELSE 0

\* C18: the frames decoded and not yet received are those in the channel,
\* at most FramesCap, plus at most the one held at the send; while the
\* channel is full and a frame is held at the send, every step other than a
\* receive by the caller leaves the decode count, the held frame and the
\* channel as they are.
C18_BoundedBacklog ==
    /\ [](/\ Len(frames) <= FramesCap
          /\ nDecoded - Len(received) = Len(frames) + Pending
          /\ nDecoded - Len(received) <= FramesCap + 1)
    /\ [][(spc = "send" /\ Len(frames) = FramesCap) =>
            \/ received' # received
            \/ /\ nDecoded' = nDecoded
               /\ frame' = frame
               /\ frames' = frames
               /\ spc' = "send"]_vars

\* The channel is full, the loop holds one more frame at its send and the
\* server has already written a further frame.
C18_Witness ==
    /\ spc = "send"
    /\ frame # Nil
    /\ Len(frames) = FramesCap
    /\ nDecoded < Len(sent)
    /\ ~cancel

\* The goroutine has ended with the channel and the body closed.
StreamDone == spc = "exited" /\ nFramesClose = 1 /\ nBodyClose = 1

\* C20: with the goroutine scheduled and the caller receiving, once the
\* server has closed the connection the goroutine ends with the channel
\* closed and the body closed, unless cancel is closed.
C20_StreamEndsAfterServerClose ==
    srvClosed ~> (StreamDone \/ cancel)

\* Never cancelled: the server wrote more frames than the channel and the
\* send hold, closed, and the caller received them all and saw the close.
C20_Witness ==
    /\ ~cancel
    /\ exit = "eof"
    /\ StreamDone
    /\ sawClose
    /\ Len(sent) > FramesCap + 1
    /\ Len(received) = Len(sent)

\* -------------------------------------------------------------------------
\* Claims about List, Stat, ReadAt, Cat and Stream up to their return
\* -------------------------------------------------------------------------

\* C15: a call whose node has an empty HTTPAddr returns the error naming
\* alloc.ID, has sent no request to the node agent, returns no result,
\* reader or channel, and has started no goroutine; this for each of the
\* five operations.
C15_UnadvertisedNodeFailsEarly ==
    (node # Nil /\ node.HTTPAddr = "") =>
        /\ rpc \in {"addr", "returned"}
        /\ requests = <<>>
        /\ resp = Nil
        /\ rdata = Nil
        /\ ~goStarted
        /\ rpc = "returned" => rerr = [Kind |-> "unadvertised", Alloc |-> ralloc]

\* Stream returned on a node without an advertised address.
C15_Witness ==
    /\ rop = "Stream"
    /\ rpc = "returned"
    /\ node # Nil
    /\ node.HTTPAddr = ""
    /\ rerr = [Kind |-> "unadvertised", Alloc |-> ralloc]

\* C16 as stated: List, Stat, ReadAt and Cat, when the node agent answers
\* with a status other than 200, return an error and no data: none of them
\* hands the body of such a response to the caller as file data or as a
\* decoded result.
C16_NonSuccessIsAnError ==
    (rpc = "returned" /\ rop \in {"List", "Stat", "ReadAt", "Cat"}
                      /\ resp # Nil /\ resp.StatusCode # 200) =>
        /\ rerr # Nil
        /\ rdata = Nil

\* C17: a call hands at most one request to c.Do, a GET on the node's
\* address and the operation's endpoint; it has sent exactly one when
\* it returns with the node's address resolved and none otherwise, whatever
\* the outcome (network failure, status, decode failure).
C17_OneRequestPerCall ==
    /\ Len(requests) <= 1
    /\ \A i \in 1..Len(requests) :
          requests[i] = [Method |-> "GET", Host |-> node.HTTPAddr,
                         Path |-> <<Endpoint(rop), ralloc>>]
    /\ rpc \in {"status", "decode"} => Len(requests) = 1
    /\ rpc = "returned" =>
          (Len(requests) = 1 <=> (node # Nil /\ node.HTTPAddr # ""))
    /\ rpc = "returned" =>
          (Len(requests) = 0 <=> (node = Nil \/ node.HTTPAddr = ""))

\* List got a 200 whose body does not decode, and returned the decode
\* error after its single request.
C17_Witness ==
    /\ rop = "List"
    /\ rpc = "returned"
    /\ rerr = [Kind |-> "decode", Text |-> "invalid character"]
    /\ Len(requests) = 1

====
